---- MODULE Spec2Model ----
(***************************************************************************)
(* Model of eb_bill_calculator.py: the slab allocation of calculate_bill,  *)
(* the input loop of prompt_float and the dialogue of main.                *)
(*                                                                         *)
(* Numbers.  A Python float is modelled as a record [nan, v]: either the   *)
(* not-a-number value that float("nan") yields, or an exact decimal held   *)
(* as an integer count of a fixed fraction of the unit:                    *)
(*   - quantities of energy, rates, the fixed charge and the percentages   *)
(*     as entered or passed are in thousandths (Mills);                    *)
(*   - a product of a quantity and a rate is in millionths;                *)
(*   - every figure that went through round(x, 2) is in hundredths.        *)
(* round(x, 2) is Python's rounding to the nearest hundredth, a tie going  *)
(* to the even hundredth.  Infinities are outside the model, and so is the *)
(* binary representation error of a float: it can decide a round() only    *)
(* when the decimal figure lies exactly halfway between two hundredths and *)
(* is not exact in binary.  The arguments and the typed lines below are    *)
(* chosen so that every halfway case that arises is exact in binary (as    *)
(* 57.625 and 10.375 are), where Python's round() goes to the even         *)
(* hundredth too.                                                          *)
(***************************************************************************)
EXTENDS Integers, Sequences, FiniteSets, TLC

VARIABLES
    pc,             \* position in main / calculate_bill
    caller,         \* "main": run as a script; "import": calculate_bill called directly
    raw,            \* the last line read by input()
    units,          \* main: units / calculate_bill: units
    slabs,          \* main: slabs / calculate_bill: slabs
    upto,           \* main: upto, the limit read for the slab being entered
    idx,            \* main: idx
    prev,           \* main: prev (assigned once, never read)
    fixed_charge,   \* main: fixed / calculate_bill: fixed_charge
    duty_pct,       \* main: duty / calculate_bill: duty_pct
    gst_pct,        \* main: gst / calculate_bill: gst_pct
    remaining,      \* calculate_bill: remaining
    energy_charge,  \* calculate_bill: energy_charge (the running, unrounded sum)
    slab_details,   \* calculate_bill: slab_details
    prev_limit,     \* calculate_bill: prev_limit
    next,           \* calculate_bill: position of the for loop in slabs
    bill            \* the dict returned by calculate_bill

vars == <<pc, caller, raw, units, slabs, upto, idx, prev, fixed_charge, duty_pct,
          gst_pct, remaining, energy_charge, slab_details, prev_limit, next, bill>>

mainVars == <<raw, units, slabs, upto, idx, prev, fixed_charge, duty_pct, gst_pct>>
localVars == <<remaining, energy_charge, slab_details, prev_limit, next>>

----------------------------------------------------------------------------
(* Bounds of the model *)

MaxSlabs == 3
MaxUpto == 2
MaxHalfUnits == 6

----------------------------------------------------------------------------
(* Floats *)

Mills == 10 * 10 * 10
HalfUnit == Mills \div 2

Num(v) == [nan |-> FALSE, v |-> v]
NaN == [nan |-> TRUE, v |-> 0]

\* int -> float, as Python converts an int operand of a mixed operation
FromInt(n) == Num(n * Mills)

\* comparisons: every comparison with a NaN is False
Lt(a, b) == ~a.nan /\ ~b.nan /\ a.v < b.v
Le(a, b) == ~a.nan /\ ~b.nan /\ a.v <= b.v
Gt(a, b) == ~a.nan /\ ~b.nan /\ a.v > b.v

Add(a, b) == IF a.nan \/ b.nan THEN NaN ELSE Num(a.v + b.v)
Sub(a, b) == IF a.nan \/ b.nan THEN NaN ELSE Num(a.v - b.v)
Mul(a, b) == IF a.nan \/ b.nan THEN NaN ELSE Num(a.v * b.v)

\* min(a, b): the first argument, unless the second is smaller
PyMin(a, b) == IF Lt(b, a) THEN b ELSE a
\* max(a, b): the first argument, unless the second is larger
PyMax(a, b) == IF Gt(b, a) THEN b ELSE a

\* a variant of RoundHalfEven: a tie goes up
RoundHalfUp(n, d) ==
    LET q == n \div d
        r == n % d
    IN  IF 2 * r < d THEN q ELSE q + 1

\* n/d rounded to the nearest integer, a tie going to the even one
RoundHalfEven(n, d) ==
    LET q == n \div d
        r == n % d
    IN  IF 2 * r < d THEN q
        ELSE IF 2 * r > d THEN q + 1
        ELSE IF q % 2 = 0 THEN q ELSE q + 1

\* round(x, 2) of a figure held in 1/(100*d): the result is in hundredths
round(x, d) == IF x.nan THEN NaN ELSE Num(RoundHalfEven(x.v, d))

MicroPerCent == (Mills * Mills) \div 100
MillsPerCent == Mills \div 100

\* a rounded figure (hundredths) as an operand of a sum in thousandths
CentsToMills(c) == Mul(c, Num(MillsPerCent))

\* (pct/100.0) * amount, rounded to 2 places: pct in thousandths of a percent,
\* amount in hundredths
PctOf(pct, amount) == round(Mul(pct, amount), 100 * Mills)

----------------------------------------------------------------------------
(* calculate_bill *)

Slab(u, r) == [upto |-> u, rate |-> r]

DefaultSlabs ==
    << Slab(100, Num(3000)), Slab(200, Num(4500)), Slab(300, Num(6000)), Slab(0, Num(8000)) >>

DefaultFixedCharge == 50 * Mills
DefaultDutyPct == 5 * Mills
DefaultGstPct == 5 * Mills

\* a variant of UnitsInSlab: the capacity of a slab is its upper limit
UnitsInSlabFromZero(rem, prevLimit, slab) ==
    IF slab.upto = 0
    THEN PyMax(FromInt(0), rem)
    ELSE PyMax(FromInt(0), PyMin(rem, FromInt(slab.upto)))

\* a variant of UnitsInSlab: a bounded slab is always billed in full
UnitsInSlabFullSlab(rem, prevLimit, slab) ==
    IF slab.upto = 0
    THEN PyMax(FromInt(0), rem)
    ELSE PyMax(FromInt(0), FromInt(slab.upto - prevLimit))

\* lines 59-64
UnitsInSlab(rem, prevLimit, slab) ==
    IF slab.upto = 0
    THEN PyMax(FromInt(0), rem)
    ELSE LET slab_capacity == slab.upto - prevLimit
         IN  PyMax(FromInt(0), PyMin(rem, FromInt(slab_capacity)))

\* lines 66-72: the record appended to slab_details ('above' is held as 0)
SlabDetail(units_in_slab, prevLimit, slab) ==
    [ slab_range |-> <<prevLimit + 1, slab.upto>>,
      units      |-> units_in_slab,
      rate       |-> slab.rate,
      charge     |-> round(Mul(units_in_slab, slab.rate), MicroPerCent) ]

\* a variant of Accumulate: energy_charge = charge
AccumulateOverwrite(energy, units_in_slab, slab) == Mul(units_in_slab, slab.rate)

\* a variant of Accumulate: energy_charge += round(charge, 2)
AccumulateRounded(energy, units_in_slab, slab) ==
    Add(energy, Mul(round(Mul(units_in_slab, slab.rate), MicroPerCent), Num(MicroPerCent)))

\* line 73: energy_charge += charge
Accumulate(energy, units_in_slab, slab) == Add(energy, Mul(units_in_slab, slab.rate))

\* a variant of SlabIteration: remaining is not reduced
SlabIterationKeepsRemaining(loc, slab) ==
    LET units_in_slab == UnitsInSlab(loc.remaining, loc.prev_limit, slab)
    IN  [ remaining     |-> loc.remaining,
          energy_charge |-> Accumulate(loc.energy_charge, units_in_slab, slab),
          slab_details  |-> Append(loc.slab_details,
                                   SlabDetail(units_in_slab, loc.prev_limit, slab)),
          prev_limit    |-> slab.upto ]

\* lines 59-75: one pass of the for loop over the locals
SlabIteration(loc, slab) ==
    LET units_in_slab == UnitsInSlab(loc.remaining, loc.prev_limit, slab)
    IN  [ remaining     |-> Sub(loc.remaining, units_in_slab),
          energy_charge |-> Accumulate(loc.energy_charge, units_in_slab, slab),
          slab_details  |-> Append(loc.slab_details,
                                   SlabDetail(units_in_slab, loc.prev_limit, slab)),
          prev_limit    |-> slab.upto ]

\* a variant of Break: if remaining < 0: break
BreakStrict(rem) == Lt(rem, FromInt(0))

\* lines 76-77: if remaining <= 0: break
Break(rem) == Le(rem, FromInt(0))

\* lines 53-57
EntryLocals(u) ==
    [ remaining |-> u, energy_charge |-> Num(0), slab_details |-> <<>>, prev_limit |-> 0 ]

\* lines 79-96
Totals(u, loc, fixed, dutyPct, gstPct) ==
    LET energy   == round(loc.energy_charge, MicroPerCent)
        duty     == PctOf(dutyPct, energy)
        subtotal == round(Add(Add(CentsToMills(energy), CentsToMills(duty)), fixed),
                          MillsPerCent)
        gst      == PctOf(gstPct, subtotal)
        total    == round(Add(subtotal, gst), 1)
    IN  [ units         |-> u,
          slab_details  |-> loc.slab_details,
          energy_charge |-> energy,
          fixed_charge  |-> round(fixed, MillsPerCent),
          duty_pct      |-> dutyPct,
          duty          |-> duty,
          gst_pct       |-> gstPct,
          gst           |-> gst,
          subtotal      |-> subtotal,
          total_bill    |-> total ]

RECURSIVE RunLoop(_, _, _)
RunLoop(loc, ss, i) ==
    IF i > Len(ss) THEN loc
    ELSE LET n == SlabIteration(loc, ss[i])
         IN  IF Break(n.remaining) THEN n ELSE RunLoop(n, ss, i + 1)

\* calculate_bill as a function of its arguments
calculate_bill(u, ss, fixed, dutyPct, gstPct) ==
    Totals(u, RunLoop(EntryLocals(u), ss, 1), fixed, dutyPct, gstPct)

NoBill == << >>

Locals == [ remaining |-> remaining, energy_charge |-> energy_charge,
            slab_details |-> slab_details, prev_limit |-> prev_limit ]

\* the inputs the error-handling design calls invalid
InvalidArgs ==
    \/ Lt(units, Num(0))
    \/ \E i \in 1..Len(slabs) : Lt(slabs[i].rate, Num(0))
    \/ Lt(fixed_charge, Num(0))
    \/ Lt(duty_pct, Num(0))
    \/ Lt(gst_pct, Num(0))
    \/ \E i \in 1..Len(slabs) : \E j \in (i + 1)..Len(slabs) :
          slabs[i].upto = 0 /\ slabs[j].upto # 0
    \/ \E i \in 1..(Len(slabs) - 1) :
          slabs[i].upto # 0 /\ slabs[i + 1].upto # 0 /\ slabs[i].upto >= slabs[i + 1].upto

\* a variant of Enter: invalid arguments are reported to the caller
EnterValidating ==
    /\ pc = "call"
    /\ remaining' = EntryLocals(units).remaining
    /\ energy_charge' = EntryLocals(units).energy_charge
    /\ slab_details' = EntryLocals(units).slab_details
    /\ prev_limit' = EntryLocals(units).prev_limit
    /\ next' = 1
    /\ pc' = IF InvalidArgs THEN "raised"
             ELSE IF Len(slabs) = 0 THEN "totals" ELSE "loop"
    /\ UNCHANGED <<caller, mainVars, bill>>

\* lines 53-57: the call binds the arguments and initialises the locals
Enter ==
    /\ pc = "call"
    /\ remaining' = EntryLocals(units).remaining
    /\ energy_charge' = EntryLocals(units).energy_charge
    /\ slab_details' = EntryLocals(units).slab_details
    /\ prev_limit' = EntryLocals(units).prev_limit
    /\ next' = 1
    /\ pc' = IF Len(slabs) = 0 THEN "totals" ELSE "loop"
    /\ UNCHANGED <<caller, mainVars, bill>>

\* lines 58-77: one pass of the loop, and where the loop goes next
Iterate ==
    /\ pc = "loop"
    /\ next <= Len(slabs)
    /\ LET n == SlabIteration(Locals, slabs[next])
       IN  /\ remaining' = n.remaining
           /\ energy_charge' = n.energy_charge
           /\ slab_details' = n.slab_details
           /\ prev_limit' = n.prev_limit
           /\ next' = next + 1
           /\ pc' = IF Break(n.remaining) \/ next + 1 > Len(slabs)
                    THEN "totals" ELSE "loop"
    /\ UNCHANGED <<caller, mainVars, bill>>

\* lines 79-96: the aggregate figures and the return
Return ==
    /\ pc = "totals"
    /\ bill' = Totals(units, Locals, fixed_charge, duty_pct, gst_pct)
    /\ energy_charge' = bill'.energy_charge
    /\ pc' = "returned"
    /\ UNCHANGED <<caller, mainVars, remaining, slab_details, prev_limit, next>>

----------------------------------------------------------------------------
(* calculate_bill called directly: the arguments are drawn from bounded sets *)

UnitsArgs == { Num(k * HalfUnit) : k \in -1..MaxHalfUnits }

RateProfiles == {"flat", "fine", "free", "rising", "negative"}

RateOf(p, i) ==
    CASE p = "flat"     -> Num(Mills)
      [] p = "fine"     -> Num(4)
      [] p = "free"     -> Num(0)
      [] p = "rising"   -> Num(i * 3 * HalfUnit)
      [] p = "negative" -> IF i = 1 THEN Num(-Mills) ELSE Num(Mills)

UptoSeqs == UNION { [1..n -> 0..MaxUpto] : n \in 0..MaxSlabs }

SlabLists ==
    { [i \in 1..Len(us) |-> Slab(us[i], RateOf(p, i))] : us \in UptoSeqs, p \in RateProfiles }

\* <<fixed_charge, duty_pct, gst_pct>>: the defaults of the signature, and
\* percentages of 4, 8 and 12, of which no amount in hundredths is halfway
DefaultCharges == <<DefaultFixedCharge, DefaultDutyPct, DefaultGstPct>>

ChargeArgs ==
    { DefaultCharges,
      <<0, 0, 0>>,
      <<6, 4 * Mills, 8 * Mills>>,
      <<1234, 8 * Mills, 12 * Mills>>,
      <<DefaultFixedCharge, 4 * Mills, 8 * Mills>>,
      <<-Mills, 4 * Mills, 8 * Mills>>,
      <<DefaultFixedCharge, -4 * Mills, 8 * Mills>>,
      <<DefaultFixedCharge, 4 * Mills, -8 * Mills>> }

DefaultUnitsArgs == { Num(k * 50 * Mills) : k \in 0..7 }

CalcInit ==
    /\ pc = "call"
    /\ caller = "import"
    /\ raw = [kind |-> "blank", v |-> 0]
    /\ \E c \in ChargeArgs :
         /\ \/ slabs \in SlabLists /\ units \in UnitsArgs /\ c # DefaultCharges
            \/ slabs = DefaultSlabs /\ units \in DefaultUnitsArgs /\ c = DefaultCharges
         /\ fixed_charge = Num(c[1])
         /\ duty_pct = Num(c[2])
         /\ gst_pct = Num(c[3])
    /\ upto = 0
    /\ idx = 1
    /\ prev = 0
    /\ remaining = Num(0)
    /\ energy_charge = Num(0)
    /\ slab_details = << >>
    /\ prev_limit = 0
    /\ next = 1
    /\ bill = NoBill

CalcNext == Enter \/ Iterate \/ Return

CalcSpec == CalcInit /\ [][CalcNext]_vars

----------------------------------------------------------------------------
(* prompt_float and main: the lines typed are drawn from bounded sets *)

\* what input() returns: a blank line, a line float() rejects, the line "nan",
\* or a decimal number (v, in thousandths)
Blank == [kind |-> "blank", v |-> 0]
Text == [kind |-> "text", v |-> 0]
NanLine == [kind |-> "nan", v |-> 0]
Dec(n) == [kind |-> "dec", v |-> n]

\* float(raw) raises ValueError on a blank line and on text
FloatRaises(r) == r.kind \in {"blank", "text"}

\* float(raw): "nan" is a float, and so is every decimal number
ParseFloat(r) == IF r.kind = "nan" THEN NaN ELSE Num(r.v)

NoDefault == [given |-> FALSE, value |-> Num(0)]
Default(v) == [given |-> TRUE, value |-> v]

\* lines 114-124: one pass of the while loop of prompt_float on the line read:
\* either a value is returned or a message is printed and the loop goes round
PromptFloatPass(r, default) ==
    IF r.kind = "blank" /\ default.given
    THEN [returned |-> TRUE, val |-> default.value]
    ELSE IF FloatRaises(r)
    THEN [returned |-> FALSE, val |-> Num(0)]
    ELSE IF Lt(ParseFloat(r), Num(0))
    THEN [returned |-> FALSE, val |-> Num(0)]
    ELSE [returned |-> TRUE, val |-> ParseFloat(r)]

UnitLines ==
    { Blank, Text, NanLine, Dec(-HalfUnit), Dec(0), Dec(750), Dec(Mills), Dec(4 * Mills) }

UptoLines ==
    { Blank, Text, NanLine, Dec(-Mills) } \cup { Dec(k * HalfUnit) : k \in 0..(2 * MaxUpto) }

RateLines == { Blank, Text, NanLine, Dec(-Mills), Dec(4) }

FixedLines == { Blank, Text, Dec(-Mills), Dec(6) }

PctLines == { Blank, Text, Dec(-Mills), Dec(0) }

\* the answer to "Use default slabs?", after strip() and lower()
Answers == { "", "y", "yes", "n", "no" }

Init ==
    /\ pc = "units"
    /\ caller = "main"
    /\ raw = Blank
    /\ units = Num(0)
    /\ slabs = << >>
    /\ upto = 0
    /\ idx = 1
    /\ prev = 0
    /\ fixed_charge = Num(0)
    /\ duty_pct = Num(0)
    /\ gst_pct = Num(0)
    /\ remaining = Num(0)
    /\ energy_charge = Num(0)
    /\ slab_details = << >>
    /\ prev_limit = 0
    /\ next = 1
    /\ bill = NoBill

\* line 128: units = prompt_float("Enter units consumed (kWh): ")
ReadUnits ==
    /\ pc = "units"
    /\ \E r \in UnitLines :
         LET pass == PromptFloatPass(r, NoDefault)
         IN  /\ raw' = r
             /\ units' = IF pass.returned THEN pass.val ELSE units
             /\ pc' = IF pass.returned THEN "use_defaults" ELSE pc
    /\ UNCHANGED <<caller, slabs, upto, idx, prev, fixed_charge, duty_pct, gst_pct,
                   localVars, bill>>

\* lines 136-143: the default slabs, or the start of the slab-entry loop
ChooseSlabs ==
    /\ pc = "use_defaults"
    /\ \E use_defaults \in Answers :
         /\ raw' = IF use_defaults = "" THEN Blank ELSE Text
         /\ IF use_defaults \in {"", "y", "yes"}
            THEN /\ slabs' = DefaultSlabs
                 /\ pc' = "fixed"
                 /\ UNCHANGED <<idx, prev>>
            ELSE /\ slabs' = << >>
                 /\ idx' = 1
                 /\ prev' = 0
                 /\ pc' = "upto"
    /\ UNCHANGED <<caller, units, upto, fixed_charge, duty_pct, gst_pct, localVars, bill>>

\* line 145: upto = int(prompt_float(..., default=0)); int() of a NaN raises
\* ValueError, which main does not catch.  The list is kept within MaxSlabs:
\* the last slab the model lets the user enter is the unbounded one.
ReadUpto ==
    /\ pc = "upto"
    /\ \E r \in UptoLines :
         LET pass == PromptFloatPass(r, Default(FromInt(0)))
         IN  /\ raw' = r
             /\ IF ~pass.returned
                THEN UNCHANGED <<pc, upto>>
                ELSE IF pass.val.nan
                THEN pc' = "crashed" /\ UNCHANGED upto
                ELSE /\ Len(slabs) + 1 < MaxSlabs \/ pass.val.v \div Mills = 0
                     /\ upto' = pass.val.v \div Mills
                     /\ pc' = "rate"
    /\ UNCHANGED <<caller, units, slabs, idx, prev, fixed_charge, duty_pct, gst_pct,
                   localVars, bill>>

\* lines 146-150: the rate, the append, and the exit from the loop on upto == 0
ReadRate ==
    /\ pc = "rate"
    /\ \E r \in RateLines :
         LET pass == PromptFloatPass(r, Default(FromInt(1)))
         IN  /\ raw' = r
             /\ IF ~pass.returned
                THEN UNCHANGED <<pc, slabs, idx>>
                ELSE /\ slabs' = Append(slabs, Slab(upto, pass.val))
                     /\ idx' = idx + 1
                     /\ pc' = IF upto = 0 THEN "fixed" ELSE "upto"
    /\ UNCHANGED <<caller, units, upto, prev, fixed_charge, duty_pct, gst_pct,
                   localVars, bill>>

\* line 152
ReadFixed ==
    /\ pc = "fixed"
    /\ \E r \in FixedLines :
         LET pass == PromptFloatPass(r, Default(Num(DefaultFixedCharge)))
         IN  /\ raw' = r
             /\ fixed_charge' = IF pass.returned THEN pass.val ELSE fixed_charge
             /\ pc' = IF pass.returned THEN "duty" ELSE pc
    /\ UNCHANGED <<caller, units, slabs, upto, idx, prev, duty_pct, gst_pct,
                   localVars, bill>>

\* line 153
ReadDuty ==
    /\ pc = "duty"
    /\ \E r \in PctLines :
         LET pass == PromptFloatPass(r, Default(Num(DefaultDutyPct)))
         IN  /\ raw' = r
             /\ duty_pct' = IF pass.returned THEN pass.val ELSE duty_pct
             /\ pc' = IF pass.returned THEN "gst" ELSE pc
    /\ UNCHANGED <<caller, units, slabs, upto, idx, prev, fixed_charge, gst_pct,
                   localVars, bill>>

\* line 154, and the call of line 156
ReadGst ==
    /\ pc = "gst"
    /\ \E r \in PctLines :
         LET pass == PromptFloatPass(r, Default(Num(DefaultGstPct)))
         IN  /\ raw' = r
             /\ gst_pct' = IF pass.returned THEN pass.val ELSE gst_pct
             /\ pc' = IF pass.returned THEN "call" ELSE pc
    /\ UNCHANGED <<caller, units, slabs, upto, idx, prev, fixed_charge, duty_pct,
                   localVars, bill>>

\* line 157: print_breakdown(bill), lines 98-110
PrintBreakdown ==
    /\ pc = "returned"
    /\ caller = "main"
    /\ pc' = "done"
    /\ UNCHANGED <<caller, mainVars, localVars, bill>>

Next ==
    \/ ReadUnits
    \/ ChooseSlabs
    \/ ReadUpto
    \/ ReadRate
    \/ ReadFixed
    \/ ReadDuty
    \/ ReadGst
    \/ Enter
    \/ Iterate
    \/ Return
    \/ PrintBreakdown

Spec == Init /\ [][Next]_vars

----------------------------------------------------------------------------
(* Vocabulary of the properties *)

Returned == pc = "returned"

RECURSIVE SumUnits(_)
\* the sum of the 'units' fields of a sequence of slab_details records
SumUnits(details) ==
    IF details = << >> THEN 0
    ELSE details[1].units.v + SumUnits(Tail(details))

RECURSIVE SumCharges(_)
\* the sum of the 'charge' fields (hundredths)
SumCharges(details) ==
    IF details = << >> THEN 0
    ELSE details[1].charge.v + SumCharges(Tail(details))

RECURSIVE SumProducts(_)
\* the sum of units * rate over the records, not rounded (millionths)
SumProducts(details) ==
    IF details = << >> THEN 0
    ELSE details[1].units.v * details[1].rate.v + SumProducts(Tail(details))

LastSlab(ss) == ss[Len(ss)]

EndsUnbounded(ss) == Len(ss) >= 1 /\ LastSlab(ss).upto = 0

\* every tier bounded, the upper bounds strictly increasing
BoundedIncreasing(ss) ==
    /\ \A i \in 1..Len(ss) : ss[i].upto > 0
    /\ \A i \in 1..(Len(ss) - 1) : ss[i].upto < ss[i + 1].upto

\* the data model's tier list: bounded tiers with strictly increasing bounds,
\* then the one unbounded tier
WellFormed(ss) ==
    /\ EndsUnbounded(ss)
    /\ BoundedIncreasing(SubSeq(ss, 1, Len(ss) - 1))

NonNegativeRates(ss) == \A i \in 1..Len(ss) : Le(Num(0), ss[i].rate)

NonNegativeCharges ==
    /\ Le(Num(0), fixed_charge)
    /\ Le(Num(0), duty_pct)
    /\ Le(Num(0), gst_pct)

----------------------------------------------------------------------------
(* C1 *)

\* C1: for units >= 0 and a tier list whose last tier is unbounded, the 'units'
\* fields of the returned slab_details sum to the input units exactly.
C1_AllocationSumsToUnits ==
    (Returned /\ Le(Num(0), units) /\ EndsUnbounded(slabs))
        => SumUnits(bill.slab_details) = units.v

\* units spread over three tiers, the last of them the unbounded one
C1_Witness ==
    /\ Returned /\ EndsUnbounded(slabs)
    /\ Len(bill.slab_details) = 3
    /\ \A i \in 1..3 : bill.slab_details[i].units.v > 0
    /\ SumUnits(bill.slab_details) = units.v

----------------------------------------------------------------------------
(* C2 *)

\* C2 (as stated): calculate_bill reports InvalidInput instead of returning a
\* breakdown whenever units, a rate, the fixed charge or a percentage is
\* negative, a bounded tier follows an unbounded one, or the upper bounds do
\* not strictly increase.
C2_RejectsInvalidInput == InvalidArgs => ~Returned

\* C2 (amended): calculate_bill validates nothing and reports no error: for
\* each of those inputs it runs to its return statement and hands a breakdown
\* to the caller.
C2_ReturnsOnInvalidInput ==
    InvalidArgs =>
        /\ pc \in {"call", "loop", "totals", "returned"}
        /\ pc = "loop" => next <= Len(slabs)
        /\ Returned => bill # NoBill /\ bill.units = units

\* a breakdown returned for negative units and a bounded tier after the unbounded one
C2_Witness ==
    /\ Returned
    /\ Lt(units, Num(0))
    /\ \E i \in 1..Len(slabs) : \E j \in (i + 1)..Len(slabs) :
          slabs[i].upto = 0 /\ slabs[j].upto # 0
    /\ Len(bill.slab_details) = 1
    /\ bill.energy_charge = Num(0)

----------------------------------------------------------------------------
(* C3 *)

C3_Case ==
    /\ Returned
    /\ Len(slabs) >= 1
    /\ BoundedIncreasing(slabs)
    /\ Lt(FromInt(LastSlab(slabs).upto), units)

\* the units above the last upper bound (thousandths)
Excess == units.v - LastSlab(slabs).upto * Mills

\* the energy charge if the excess were charged at the last tier's rate
C3_ChargedAtLastRate ==
    RoundHalfEven(SumProducts(bill.slab_details) + Excess * LastSlab(slabs).rate.v,
                  MicroPerCent)

C3_DropsExcess ==
    /\ SumUnits(bill.slab_details) = LastSlab(slabs).upto * Mills
    /\ remaining = Num(Excess)
    /\ bill.energy_charge =
         calculate_bill(FromInt(LastSlab(slabs).upto), slabs,
                        fixed_charge, duty_pct, gst_pct).energy_charge

----------------------------------------------------------------------------
(* C4 *)

C4_Case ==
    /\ Returned
    /\ WellFormed(slabs)
    /\ NonNegativeRates(slabs)
    /\ NonNegativeCharges
    /\ Le(Num(0), units)

\* C4: with the tiers and the charges fixed, total_bill does not decrease as
\* units grows: every smaller non-negative units gives a total_bill that is no
\* larger.
C4_Monotone ==
    C4_Case =>
        \A u1 \in UnitsArgs \cup DefaultUnitsArgs :
            (Le(Num(0), u1) /\ Le(u1, units))
                => Le(calculate_bill(u1, slabs, fixed_charge, duty_pct, gst_pct).total_bill,
                      bill.total_bill)

\* a bill over three tiers that is strictly larger than the bill for half a unit less
C4_Witness ==
    /\ C4_Case
    /\ Len(bill.slab_details) = 3
    /\ Lt(calculate_bill(Num(units.v - HalfUnit), slabs, fixed_charge, duty_pct,
                         gst_pct).total_bill,
          bill.total_bill)

----------------------------------------------------------------------------
(* C5 *)

C5_Case ==
    /\ Returned
    /\ slabs = DefaultSlabs
    /\ units = Num(250 * Mills)
    /\ fixed_charge = Num(DefaultFixedCharge)
    /\ duty_pct = Num(DefaultDutyPct)
    /\ gst_pct = Num(DefaultGstPct)

C5_Allocation ==
    /\ Len(bill.slab_details) = 3
    /\ bill.slab_details[1].units = Num(100 * Mills)
    /\ bill.slab_details[2].units = Num(100 * Mills)
    /\ bill.slab_details[3].units = Num(50 * Mills)
    /\ bill.energy_charge = Num(105000)
    /\ bill.duty = Num(5250)
    /\ bill.subtotal = Num(115250)

\* C5 (as stated): 250 units on the default tiers and charges give energy
\* 1050.00, duty 52.50, subtotal 1152.50, gst 57.63 and total 1210.13.
C5_Example ==
    C5_Case => C5_Allocation /\ bill.gst = Num(5763) /\ bill.total_bill = Num(121013)

\* C5 (amended): ... gst 57.62 and total 1210.12: round(57.625, 2) is 57.62.
C5_ExampleAsComputed ==
    C5_Case => C5_Allocation /\ bill.gst = Num(5762) /\ bill.total_bill = Num(121012)

C5_Witness == C5_Case /\ bill.total_bill = Num(121012)

----------------------------------------------------------------------------
(* C6 *)

C6_Case == Returned /\ units = Num(0) /\ Len(slabs) >= 1

\* C6: for units = 0 and a non-empty tier list every recorded allocation is 0,
\* energy_charge and duty are 0, subtotal is the fixed charge rounded to 2
\* places and total_bill is subtotal plus the GST on that subtotal.
C6_ZeroUnits ==
    C6_Case =>
        /\ \A i \in 1..Len(bill.slab_details) : bill.slab_details[i].units.v = 0
        /\ bill.energy_charge.v = 0
        /\ bill.duty.v = 0
        /\ bill.subtotal = round(fixed_charge, MillsPerCent)
        /\ bill.gst = PctOf(gst_pct, round(fixed_charge, MillsPerCent))
        /\ bill.total_bill.v = bill.subtotal.v + bill.gst.v

\* zero units, priced tiers, a fixed charge of 1.234 that rounds to 1.23, GST levied
C6_Witness ==
    /\ C6_Case
    /\ Len(slabs) >= 2
    /\ \A i \in 1..Len(slabs) : slabs[i].rate.v > 0
    /\ fixed_charge = Num(1234)
    /\ bill.subtotal = Num(123)
    /\ bill.gst.v > 0

----------------------------------------------------------------------------
(* C7 *)

C7_Case == Returned /\ Le(Num(0), units) /\ NonNegativeRates(slabs)

\* C7 (as stated): energy_charge equals the sum of the 'charge' fields of the
\* slab_details records.
C7_EnergyIsSumOfShownCharges ==
    (C7_Case /\ NonNegativeCharges) => bill.energy_charge.v = SumCharges(bill.slab_details)

\* C7 (amended): energy_charge equals the sum of the unrounded products
\* units * rate of the records, rounded once to 2 places; it equals the sum of
\* the 'charge' fields when every product has at most 2 decimal places.
C7_EnergyIsRoundedSum ==
    C7_Case =>
        /\ bill.energy_charge.v = RoundHalfEven(SumProducts(bill.slab_details), MicroPerCent)
        /\ (\A i \in 1..Len(bill.slab_details) :
               (bill.slab_details[i].units.v * bill.slab_details[i].rate.v) % MicroPerCent = 0)
              => bill.energy_charge.v = SumCharges(bill.slab_details)

\* two tiers whose products have more than 2 decimal places
C7_Witness ==
    /\ C7_Case
    /\ Len(bill.slab_details) >= 2
    /\ \A i \in 1..Len(bill.slab_details) :
          (bill.slab_details[i].units.v * bill.slab_details[i].rate.v) % MicroPerCent # 0
    /\ bill.energy_charge.v = RoundHalfEven(SumProducts(bill.slab_details), MicroPerCent)
    /\ bill.energy_charge.v > 0

----------------------------------------------------------------------------
(* C9 *)

\* remaining after the first j records
RemainingAfter(j) == units.v - SumUnits(SubSeq(slab_details, 1, j))

\* C9: slab_details holds one record for each tier visited, in order, and the
\* loop stops after the first tier that leaves remaining <= 0: no record
\* before the last leaves remaining <= 0, tiers are left unvisited only after
\* such a record, units equal to a tier's upper bound give no record for the
\* next tier, and units = 0 gives exactly one record, with allocation 0.
C9_ShortCircuit ==
    /\ pc \in {"loop", "totals", "returned"} =>
          /\ Len(slab_details) = next - 1
          /\ Len(slab_details) <= Len(slabs)
          /\ \A j \in 1..Len(slab_details) :
                /\ slab_details[j].rate = slabs[j].rate
                /\ slab_details[j].slab_range[2] = slabs[j].upto
          /\ \A j \in 1..(Len(slab_details) - 1) : RemainingAfter(j) > 0
    /\ pc = "loop" => next = 1 \/ Gt(remaining, Num(0))
    /\ pc \in {"totals", "returned"} =>
          /\ Len(slab_details) < Len(slabs) => RemainingAfter(Len(slab_details)) <= 0
          /\ \A k \in 1..Len(slabs) :
                (slabs[k].upto # 0 /\ units = FromInt(slabs[k].upto))
                    => Len(slab_details) <= k
          /\ (units = Num(0) /\ Len(slabs) >= 1)
                => Len(slab_details) = 1 /\ slab_details[1].units.v = 0

\* units equal to the second tier's upper bound: two records, the third tier unvisited
C9_Witness ==
    /\ Returned
    /\ Len(slabs) = 3
    /\ slabs[2].upto # 0
    /\ units = FromInt(slabs[2].upto)
    /\ Len(bill.slab_details) = 2
    /\ bill.slab_details[2].units.v > 0

----------------------------------------------------------------------------
(* C8 *)

\* main is about to call calculate_bill with what the prompts returned
MainCalls == caller = "main" /\ pc = "call"

\* C8: every value prompt_float returns is >= 0, so the units, the rates, the
\* fixed charge and the percentages main passes to calculate_bill are all
\* non-negative.
C8_InputLayerNonNegative ==
    MainCalls =>
        /\ Le(Num(0), units)
        /\ NonNegativeRates(slabs)
        /\ NonNegativeCharges

----------------------------------------------------------------------------
(* C10 *)

\* C10: every tier list main passes to calculate_bill has exactly one
\* unbounded tier, placed last, and strictly increasing upper bounds before it.
C10_TierListWellFormed ==
    (MainCalls /\ Le(Num(0), units) /\ NonNegativeRates(slabs)) => WellFormed(slabs)

====
